---- MODULE Spec2Model ----
(***************************************************************************)
(* Model of scripts/log_agent_activity.py: the activity log is a text file *)
(* of characters; log_activity appends json.dumps(entry) + "\n", the three *)
(* query functions read the file with readlines() and json.loads.          *)
(*                                                                         *)
(* A character is a one-character string, a Python str is a sequence of    *)
(* characters.  A Python value is a record with a tag t and one payload    *)
(* field per kind, so that any two values can be compared:                 *)
(*   PyNone, PyStr(s) (s a sequence of characters), PyInt(n), PyDict(d),   *)
(*   d the insertion-ordered sequence of [k |-> key, v |-> value] items.   *)
(***************************************************************************)
EXTENDS Integers, Sequences, FiniteSets, TLC

QUOTE == "\""
BSL == "\\"
NL == "\n"
SP == " "

PyNone == [t |-> "none", s |-> <<>>, n |-> 0, d |-> <<>>]
PyStr(s) == [t |-> "str", s |-> s, n |-> 0, d |-> <<>>]
PyInt(n) == [t |-> "int", s |-> <<>>, n |-> n, d |-> <<>>]
PyDict(d) == [t |-> "dict", s |-> <<>>, n |-> 0, d |-> d]

Digits == <<"0", "1", "2", "3", "4", "5", "6", "7", "8", "9">>

IsDigit(c) == c \in {"0", "1", "2", "3", "4", "5", "6", "7", "8", "9"}

DigitVal(c) == (CHOOSE k \in 1..10 : Digits[k] = c) - 1

IsSpace(c) == c \in {SP, NL, "\t", "\r"}

(* str(n) for an integer n, as json.dumps and isoformat print numbers *)
RECURSIVE NatToChars(_)
NatToChars(n) ==
    IF n < 10 THEN <<Digits[n + 1]>>
    ELSE NatToChars(n \div 10) \o <<Digits[(n % 10) + 1]>>

IntToChars(n) == IF n < 0 THEN <<"-">> \o NatToChars(0 - n) ELSE NatToChars(n)

(***************************************************************************)
(* int(x): an int is itself; a str is stripped of surrounding whitespace,  *)
(* then an optional sign and one or more decimal digits are read; anything *)
(* else raises ValueError; None raises TypeError.                          *)
(***************************************************************************)
RECURSIVE LStrip(_)
LStrip(s) == IF s # <<>> /\ IsSpace(Head(s)) THEN LStrip(Tail(s)) ELSE s

RECURSIVE RStrip(_)
RStrip(s) ==
    IF s # <<>> /\ IsSpace(s[Len(s)]) THEN RStrip(SubSeq(s, 1, Len(s) - 1)) ELSE s

RECURSIVE DigitsVal(_, _)
DigitsVal(s, acc) ==
    IF s = <<>> THEN acc ELSE DigitsVal(Tail(s), acc * 10 + DigitVal(Head(s)))

ParseInt(x) ==
    IF x.t = "int" THEN [exc |-> "none", n |-> x.n]
    ELSE IF x.t # "str" THEN [exc |-> "TypeError", n |-> 0]
    ELSE
        LET body == RStrip(LStrip(x.s))
            signed == body # <<>> /\ Head(body) \in {"-", "+"}
            digs == IF signed THEN Tail(body) ELSE body
        IN  IF digs # <<>> /\ \A k \in 1..Len(digs) : IsDigit(digs[k])
            THEN [exc |-> "none",
                  n |-> IF signed /\ Head(body) = "-"
                        THEN 0 - DigitsVal(digs, 0) ELSE DigitsVal(digs, 0)]
            ELSE [exc |-> "ValueError", n |-> 0]

(***************************************************************************)
(* json.dumps: strings are quoted with ", \ and newline escaped; items of  *)
(* a dict are joined by ", " and key and value by ": ".                    *)
(***************************************************************************)
(* EscapeChar with the newline written raw *)
EscapeChar_RawNewline(c) ==
    IF c = QUOTE THEN <<BSL, QUOTE>>
    ELSE IF c = BSL THEN <<BSL, BSL>>
    ELSE <<c>>

EscapeChar(c) ==
    IF c = QUOTE THEN <<BSL, QUOTE>>
    ELSE IF c = BSL THEN <<BSL, BSL>>
    ELSE IF c = NL THEN <<BSL, "n">>
    ELSE <<c>>

RECURSIVE Escape(_)
Escape(s) == IF s = <<>> THEN <<>> ELSE EscapeChar(Head(s)) \o Escape(Tail(s))

DumpsStr(s) == <<QUOTE>> \o Escape(s) \o <<QUOTE>>

RECURSIVE Dumps(_)
RECURSIVE DumpsItems(_)
DumpsItems(d) ==
    IF d = <<>> THEN <<>>
    ELSE DumpsStr(d[1].k) \o <<":", SP>> \o Dumps(d[1].v)
         \o (IF Len(d) > 1 THEN <<",", SP>> ELSE <<>>) \o DumpsItems(Tail(d))

Dumps(v) ==
    IF v.t = "str" THEN DumpsStr(v.s)
    ELSE IF v.t = "int" THEN IntToChars(v.n)
    ELSE IF v.t = "dict" THEN <<"{">> \o DumpsItems(v.d) \o <<"}">>
    ELSE <<"n", "u", "l", "l">>

(***************************************************************************)
(* json.loads: a recursive-descent reader of strings, integers, null and   *)
(* objects.  Each reader takes the text s and a position i and returns     *)
(* [ok, v, i]: whether it succeeded, the value, the position after it.     *)
(* A failure is json.JSONDecodeError.                                      *)
(***************************************************************************)
Fail == [ok |-> FALSE, v |-> PyNone, i |-> 0]

At(s, i) == IF i >= 1 /\ i <= Len(s) THEN s[i] ELSE "EOF"

RECURSIVE SkipWs(_, _)
SkipWs(s, i) == IF IsSpace(At(s, i)) THEN SkipWs(s, i + 1) ELSE i

RECURSIVE ScanString(_, _, _)
ScanString(s, i, acc) ==
    LET c == At(s, i) IN
    IF c = "EOF" \/ c = NL THEN Fail
    ELSE IF c = QUOTE THEN [ok |-> TRUE, v |-> PyStr(acc), i |-> i + 1]
    ELSE IF c = BSL THEN
        LET e == At(s, i + 1) IN
        IF e = QUOTE \/ e = BSL \/ e = "/" THEN ScanString(s, i + 2, Append(acc, e))
        ELSE IF e = "n" THEN ScanString(s, i + 2, Append(acc, NL))
        ELSE IF e = "t" THEN ScanString(s, i + 2, Append(acc, "\t"))
        ELSE IF e = "r" THEN ScanString(s, i + 2, Append(acc, "\r"))
        ELSE Fail
    ELSE ScanString(s, i + 1, Append(acc, c))

RECURSIVE ScanDigits(_, _, _)
ScanDigits(s, i, acc) ==
    IF IsDigit(At(s, i)) THEN ScanDigits(s, i + 1, acc * 10 + DigitVal(s[i]))
    ELSE [ok |-> TRUE, v |-> PyInt(acc), i |-> i]

ParseNumber(s, i) ==
    LET neg == At(s, i) = "-"
        j == IF neg THEN i + 1 ELSE i
        r == IF At(s, j) = "0" THEN [ok |-> TRUE, v |-> PyInt(0), i |-> j + 1]
             ELSE IF IsDigit(At(s, j)) THEN ScanDigits(s, j, 0)
             ELSE Fail
    IN  IF r.ok /\ neg THEN [r EXCEPT !.v = PyInt(0 - r.v.n)] ELSE r

(* d[key] = val on an insertion-ordered dict: a repeated key keeps its place *)
DictSet(d, key, val) ==
    IF \E k \in 1..Len(d) : d[k].k = key
    THEN [k \in 1..Len(d) |-> IF d[k].k = key THEN [k |-> key, v |-> val] ELSE d[k]]
    ELSE Append(d, [k |-> key, v |-> val])

RECURSIVE ParseValue(_, _)
RECURSIVE ParseMembers(_, _, _)
ParseMembers(s, i, acc) ==
    IF At(s, i) # QUOTE THEN Fail
    ELSE
        LET key == ScanString(s, i + 1, <<>>) IN
        IF ~key.ok THEN Fail
        ELSE
            LET c == SkipWs(s, key.i) IN
            IF At(s, c) # ":" THEN Fail
            ELSE
                LET val == ParseValue(s, SkipWs(s, c + 1)) IN
                IF ~val.ok THEN Fail
                ELSE
                    LET e == SkipWs(s, val.i)
                        d == DictSet(acc, key.v.s, val.v)
                    IN  IF At(s, e) = "}" THEN [ok |-> TRUE, v |-> PyDict(d), i |-> e + 1]
                        ELSE IF At(s, e) = "," THEN ParseMembers(s, SkipWs(s, e + 1), d)
                        ELSE Fail

ParseValue(s, i) ==
    LET c == At(s, i) IN
    IF c = QUOTE THEN ScanString(s, i + 1, <<>>)
    ELSE IF c = "{" THEN
        LET j == SkipWs(s, i + 1) IN
        IF At(s, j) = "}" THEN [ok |-> TRUE, v |-> PyDict(<<>>), i |-> j + 1]
        ELSE ParseMembers(s, j, <<>>)
    ELSE IF c = "-" \/ IsDigit(c) THEN ParseNumber(s, i)
    ELSE IF c = "n" /\ At(s, i + 1) = "u" /\ At(s, i + 2) = "l" /\ At(s, i + 3) = "l"
        THEN [ok |-> TRUE, v |-> PyNone, i |-> i + 4]
    ELSE Fail

Loads(s) ==
    LET r == ParseValue(s, SkipWs(s, 1)) IN
    IF r.ok /\ SkipWs(s, r.i) = Len(s) + 1 THEN [ok |-> TRUE, v |-> r.v]
    ELSE [ok |-> FALSE, v |-> PyNone]

(***************************************************************************)
(* Bounds of the model; the fields and the defaults of an entry.           *)
(***************************************************************************)
MaxLines == 2
MaxPriorLines == 1
MaxLimit == 2

K_timestamp == <<"t", "i", "m", "e", "s", "t", "a", "m", "p">>
K_action == <<"a", "c", "t", "i", "o", "n">>
K_issue_number == <<"i", "s", "s", "u", "e", "_", "n", "u", "m", "b", "e", "r">>
K_agent_id == <<"a", "g", "e", "n", "t", "_", "i", "d">>
K_details == <<"d", "e", "t", "a", "i", "l", "s">>

DefaultAgentId == PyStr(<<"u", "n", "k", "n", "o", "w", "n">>)
DefaultDetails == PyStr(<<>>)
DefaultLimit == 100

(* datetime.utcnow().isoformat() + "Z", the clock being a count of ticks *)
Timestamp(clock) == PyStr(<<"T">> \o NatToChars(clock) \o <<"Z">>)

Entry(ts, action, issue, agent_id, details) ==
    PyDict(<< [k |-> K_timestamp, v |-> ts],
              [k |-> K_action, v |-> action],
              [k |-> K_issue_number, v |-> issue],
              [k |-> K_agent_id, v |-> agent_id],
              [k |-> K_details, v |-> details] >>)

(***************************************************************************)
(* log_activity(action, issue_number, agent_id, details) at time clock on  *)
(* a log holding the characters text: the exception raised ("none" if      *)
(* none), the entry returned and the text of the log afterwards.  The      *)
(* entry is built, int(issue_number) included, before the file is opened.  *)
(***************************************************************************)
(* log_activity opening the file with mode "w" *)
log_activity_Truncate(text, clock, action, issue_number, agent_id, details) ==
    LET n == ParseInt(issue_number)
        entry == Entry(Timestamp(clock), action, PyInt(n.n), agent_id, details)
    IN  IF n.exc # "none"
        THEN [exc |-> n.exc, entry |-> PyNone, text |-> text, opened |-> FALSE]
        ELSE [exc |-> "none", entry |-> entry,
              text |-> Dumps(entry) \o <<NL>>, opened |-> TRUE]

(* log_activity opening the file before it builds the entry *)
log_activity_OpenFirst(text, clock, action, issue_number, agent_id, details) ==
    LET n == ParseInt(issue_number)
        entry == Entry(Timestamp(clock), action, PyInt(n.n), agent_id, details)
    IN  IF n.exc # "none"
        THEN [exc |-> n.exc, entry |-> PyNone, text |-> text, opened |-> TRUE]
        ELSE [exc |-> "none", entry |-> entry,
              text |-> text \o Dumps(entry) \o <<NL>>, opened |-> TRUE]

log_activity(text, clock, action, issue_number, agent_id, details) ==
    LET n == ParseInt(issue_number)
        entry == Entry(Timestamp(clock), action, PyInt(n.n), agent_id, details)
    IN  IF n.exc # "none"
        THEN [exc |-> n.exc, entry |-> PyNone, text |-> text, opened |-> FALSE]
        ELSE [exc |-> "none", entry |-> entry,
              text |-> text \o Dumps(entry) \o <<NL>>, opened |-> TRUE]

(* f.readlines(): the text cut after every newline; a last piece without a
   newline is a line too *)
LineEnd(s, i) ==
    LET ends == {j \in i..Len(s) : s[j] = NL} IN
    IF ends = {} THEN Len(s) ELSE CHOOSE j \in ends : \A m \in ends : j <= m

RECURSIVE SplitLines(_, _, _)
SplitLines(s, i, acc) ==
    IF i > Len(s) THEN acc
    ELSE SplitLines(s, LineEnd(s, i) + 1, Append(acc, SubSeq(s, i, LineEnd(s, i))))

readlines(s) == SplitLines(s, 1, <<>>)

(* lines[-limit:] of a Python list *)
LastSlice(lines, limit) ==
    LET start == 0 - limit
        from == IF start < 0
                THEN (IF Len(lines) + start < 0 THEN 0 ELSE Len(lines) + start)
                ELSE (IF start > Len(lines) THEN Len(lines) ELSE start)
    IN  SubSeq(lines, from + 1, Len(lines))

(* entry.get(key) of a dict *)
DictGet(v, key) ==
    IF \E k \in 1..Len(v.d) : v.d[k].k = key
    THEN v.d[CHOOSE k \in 1..Len(v.d) : v.d[k].k = key].v
    ELSE PyNone

RECURSIVE ParseLines(_, _)
ParseLines(lines, acc) ==
    IF lines = <<>> THEN acc
    ELSE LET r == Loads(Head(lines)) IN
         ParseLines(Tail(lines), IF r.ok THEN Append(acc, r.v) ELSE acc)

get_recent_activity(exists, text, limit) ==
    IF ~exists THEN [exc |-> "none", val |-> <<>>]
    ELSE [exc |-> "none", val |-> ParseLines(LastSlice(readlines(text), limit), <<>>)]

(* ScanIssue comparing with the argument as given, without int() *)
RECURSIVE ScanIssue_NoCoerce(_, _, _)
ScanIssue_NoCoerce(lines, issue_number, acc) ==
    IF lines = <<>> THEN [exc |-> "none", val |-> acc]
    ELSE LET r == Loads(Head(lines)) IN
         IF ~r.ok THEN ScanIssue_NoCoerce(Tail(lines), issue_number, acc)
         ELSE IF r.v.t # "dict" THEN [exc |-> "AttributeError", val |-> <<>>]
         ELSE ScanIssue_NoCoerce(Tail(lines), issue_number,
                                 IF DictGet(r.v, K_issue_number) = issue_number
                                 THEN Append(acc, r.v) ELSE acc)

RECURSIVE ScanIssue(_, _, _)
ScanIssue(lines, issue_number, acc) ==
    IF lines = <<>> THEN [exc |-> "none", val |-> acc]
    ELSE LET r == Loads(Head(lines)) IN
         IF ~r.ok THEN ScanIssue(Tail(lines), issue_number, acc)
         ELSE IF r.v.t # "dict" THEN [exc |-> "AttributeError", val |-> <<>>]
         ELSE LET n == ParseInt(issue_number) IN
              IF n.exc # "none" THEN [exc |-> n.exc, val |-> <<>>]
              ELSE ScanIssue(Tail(lines), issue_number,
                             IF DictGet(r.v, K_issue_number) = PyInt(n.n)
                             THEN Append(acc, r.v) ELSE acc)

(* get_activity_for_issue without the test that the file exists *)
get_activity_for_issue_NoExistsCheck(exists, text, issue_number) ==
    IF ~exists THEN [exc |-> "FileNotFoundError", val |-> <<>>]
    ELSE ScanIssue(readlines(text), issue_number, <<>>)

get_activity_for_issue(exists, text, issue_number) ==
    IF ~exists THEN [exc |-> "none", val |-> <<>>]
    ELSE ScanIssue(readlines(text), issue_number, <<>>)

(* ScanAgent reading the action field in place of agent_id *)
RECURSIVE ScanAgent_WrongKey(_, _, _)
ScanAgent_WrongKey(lines, agent_id, acc) ==
    IF lines = <<>> THEN [exc |-> "none", val |-> acc]
    ELSE LET r == Loads(Head(lines)) IN
         IF ~r.ok THEN ScanAgent_WrongKey(Tail(lines), agent_id, acc)
         ELSE IF r.v.t # "dict" THEN [exc |-> "AttributeError", val |-> <<>>]
         ELSE ScanAgent_WrongKey(Tail(lines), agent_id,
                                 IF DictGet(r.v, K_action) = agent_id
                                 THEN Append(acc, r.v) ELSE acc)

RECURSIVE ScanAgent(_, _, _)
ScanAgent(lines, agent_id, acc) ==
    IF lines = <<>> THEN [exc |-> "none", val |-> acc]
    ELSE LET r == Loads(Head(lines)) IN
         IF ~r.ok THEN ScanAgent(Tail(lines), agent_id, acc)
         ELSE IF r.v.t # "dict" THEN [exc |-> "AttributeError", val |-> <<>>]
         ELSE ScanAgent(Tail(lines), agent_id,
                        IF DictGet(r.v, K_agent_id) = agent_id
                        THEN Append(acc, r.v) ELSE acc)

get_activity_for_agent(exists, text, agent_id) ==
    IF ~exists THEN [exc |-> "none", val |-> <<>>]
    ELSE ScanAgent(readlines(text), agent_id, <<>>)

(***************************************************************************)
(* The arguments the operations are called with.                           *)
(***************************************************************************)
TheAction == PyStr(<<"c">>)
IssueOne == PyInt(1)
IssueOneText == PyStr(<<"1">>)
IssueTwoText == PyStr(<<"0", "2">>)
IssueBadText == PyStr(<<"x">>)
TheAgent == PyStr(<<"a", QUOTE>>)
TheDetails == PyStr(<<BSL, NL>>)

(* positional arguments of the calls of log_activity: 2, 3 or 4 of them,
   the issue number an int or a string int() accepts, or a string it rejects *)
GoodCalls ==
    { <<TheAction, IssueTwoText>>,
      <<TheAction, IssueOne, TheAgent>>,
      <<TheAction, IssueOneText, TheAgent>>,
      <<TheAction, IssueTwoText, TheAgent, TheDetails>> }

BadCalls == { <<TheAction, IssueBadText>> }

CallArgs == GoodCalls \cup BadCalls

(* sys.argv[1:] of a run of the script: strings only *)
Argvs ==
    {<<>>, <<TheAction>>}
    \cup {a \in CallArgs : \A k \in 1..Len(a) : a[k].t = "str"}

IssueQueries == {IssueOne, IssueTwoText, IssueBadText}
AgentQueries == {TheAgent, DefaultAgentId}
Limits == 0..MaxLimit

(* the readings of datetime.utcnow(): a single one, so that two calls with
   the same arguments return equal records *)
Clocks == {0}

(***************************************************************************)
(* The log files the tool may find: absent, or any text of at most         *)
(* MaxPriorLines lines, each a record, a JSON value that is no record, or  *)
(* no JSON at all; the last line may lack its newline.                     *)
(***************************************************************************)
PriorRecord == Entry(Timestamp(0), TheAction, IssueOne, DefaultAgentId, DefaultDetails)

PriorLines ==
    { Dumps(PriorRecord),
      <<"x">>,
      <<"4">>,
      Dumps(PyDict(<<[k |-> K_issue_number, v |-> PyInt(1)]>>)) }

RECURSIVE JoinLines(_)
JoinLines(ls) == IF ls = <<>> THEN <<>> ELSE Head(ls) \o <<NL>> \o JoinLines(Tail(ls))

PriorTexts ==
    LET whole == UNION {{JoinLines(ls) : ls \in [1..k -> PriorLines]} : k \in 0..MaxPriorLines}
    IN  whole \cup {SubSeq(t, 1, Len(t) - 1) : t \in whole \ {<<>>}}

PriorFiles ==
    {[exists |-> FALSE, text |-> <<>>]} \cup {[exists |-> TRUE, text |-> t] : t \in PriorTexts}

(***************************************************************************)
(* State: the logs directory and the log file; the last call               *)
(* (op, args) and its outcome (exc, out, exitCode); and, for stating the   *)
(* properties, the file as first found and the entries returned so far.    *)
(***************************************************************************)
VARIABLES dirExists, fileExists, content, op, args, exc, out, exitCode,
          prior, appended

vars == <<dirExists, fileExists, content, op, args, exc, out, exitCode,
          prior, appended>>

Init ==
    /\ prior \in PriorFiles
    /\ fileExists = prior.exists
    /\ content = prior.text
    /\ dirExists \in {fileExists, TRUE}
    /\ op = "init"
    /\ args = <<>>
    /\ exc = "none"
    /\ out = <<>>
    /\ exitCode = -1
    /\ appended = <<>>

ArgOr(a, k, default) == IF Len(a) >= k THEN a[k] ELSE default

(* one run of log_activity's body at clock reading t; code is the exit
   status to record *)
RunLogActivity(a, t, name, okCode, failCode) ==
    LET r == log_activity(content, t, a[1], a[2],
                          ArgOr(a, 3, DefaultAgentId), ArgOr(a, 4, DefaultDetails))
    IN  /\ r.opened => Len(readlines(content)) < MaxLines
        /\ dirExists' = TRUE
        /\ fileExists' = (fileExists \/ r.opened)
        /\ content' = r.text
        /\ op' = name
        /\ args' = a
        /\ exc' = r.exc
        /\ out' = IF r.exc = "none" THEN <<r.entry>> ELSE <<>>
        /\ exitCode' = IF r.exc = "none" THEN okCode ELSE failCode
        /\ appended' = IF r.exc = "none" THEN Append(appended, r.entry) ELSE appended
        /\ UNCHANGED prior

LogActivity ==
    \E a \in CallArgs, t \in Clocks : RunLogActivity(a, t, "log_activity", -1, -1)

(* Main asking for three positional arguments *)
Main_WrongArgc ==
    \E argv \in Argvs :
        IF Len(argv) < 3
        THEN /\ op' = "main"
             /\ args' = argv
             /\ exc' = "SystemExit"
             /\ out' = <<>>
             /\ exitCode' = 1
             /\ UNCHANGED <<dirExists, fileExists, content, prior, appended>>
        ELSE \E t \in Clocks : RunLogActivity(argv, t, "main", 0, 1)

(* the script run from the command line *)
Main ==
    \E argv \in Argvs :
        IF Len(argv) < 2
        THEN /\ op' = "main"
             /\ args' = argv
             /\ exc' = "SystemExit"
             /\ out' = <<>>
             /\ exitCode' = 1
             /\ UNCHANGED <<dirExists, fileExists, content, prior, appended>>
        ELSE \E t \in Clocks : RunLogActivity(argv, t, "main", 0, 1)

Query(name, a, r) ==
    /\ op' = name
    /\ args' = a
    /\ exc' = r.exc
    /\ out' = r.val
    /\ exitCode' = -1
    /\ UNCHANGED <<dirExists, fileExists, content, prior, appended>>

GetRecentActivity ==
    \/ Query("get_recent_activity", <<>>,
             get_recent_activity(fileExists, content, DefaultLimit))
    \/ \E limit \in Limits :
           Query("get_recent_activity", <<PyInt(limit)>>,
                 get_recent_activity(fileExists, content, limit))

GetActivityForIssue ==
    \E n \in IssueQueries :
        Query("get_activity_for_issue", <<n>>, get_activity_for_issue(fileExists, content, n))

GetActivityForAgent ==
    \E g \in AgentQueries :
        Query("get_activity_for_agent", <<g>>, get_activity_for_agent(fileExists, content, g))

Next == LogActivity \/ Main \/ GetRecentActivity \/ GetActivityForIssue \/ GetActivityForAgent

Spec == Init /\ [][Next]_vars

(***************************************************************************)
(* Vocabulary of the properties.                                           *)
(***************************************************************************)
ReadOps == {"get_recent_activity", "get_activity_for_issue", "get_activity_for_agent"}
LogOps == {"log_activity", "main"}

IsPrefix(s, t) == Len(s) <= Len(t) /\ SubSeq(t, 1, Len(s)) = s

Last(s) == s[Len(s)]

HasNewline(s) == \E k \in 1..Len(s) : s[k] = NL

(* the lines of a text that end in a newline *)
CompleteLines(text) ==
    LET ls == readlines(text) IN
    IF ls # <<>> /\ Last(Last(ls)) # NL THEN SubSeq(ls, 1, Len(ls) - 1) ELSE ls

(* an activity record: exactly the five fields, issue_number an integer *)
WellFormed(v) ==
    /\ v.t = "dict"
    /\ Len(v.d) = 5
    /\ {v.d[k].k : k \in 1..Len(v.d)} =
           {K_timestamp, K_action, K_issue_number, K_agent_id, K_details}
    /\ DictGet(v, K_timestamp).t = "str"
    /\ DictGet(v, K_action).t = "str"
    /\ DictGet(v, K_issue_number).t = "int"
    /\ DictGet(v, K_agent_id).t = "str"
    /\ DictGet(v, K_details).t = "str"

(* the well-formed records of a text, in file order *)
RecordsIn(text) ==
    LET ls == readlines(text)
        parsed == [k \in 1..Len(ls) |-> Loads(ls[k])]
        IsRecord(r) == r.ok /\ WellFormed(r.v)
        kept == SelectSeq(parsed, IsRecord)
    IN  [k \in 1..Len(kept) |-> kept[k].v]

Coercible(x) == ParseInt(x).exc = "none"

ForIssue(records, x) ==
    LET Same(e) == DictGet(e, K_issue_number) = PyInt(ParseInt(x).n)
    IN  SelectSeq(records, Same)

ForAgent(records, g) ==
    LET Same(e) == DictGet(e, K_agent_id) = g
    IN  SelectSeq(records, Same)

LastN(records, n) ==
    LET k == IF n < Len(records) THEN n ELSE Len(records)
    IN  SubSeq(records, Len(records) - k + 1, Len(records))

LimitOf(a) == IF a = <<>> THEN DefaultLimit ELSE a[1].n

(* the log was absent or empty when first found: it holds what log_activity
   appended and nothing else *)
FreshLog == prior.text = <<>>

(***************************************************************************)
(* C1: after a successful log_activity, get_recent_activity (default limit *)
(* or a limit >= 1) returns a non-empty sequence whose last element is the *)
(* record log_activity returned, whatever the log held before.             *)
(***************************************************************************)
C1_RecentEndsWithAppended ==
    (op = "get_recent_activity" /\ appended # <<>> /\ LimitOf(args) >= 1)
        => (exc = "none" /\ out # <<>> /\ Last(out) = Last(appended))

(***************************************************************************)
(* C2: on a log built by log_activity calls alone, get_activity_for_issue  *)
(* of N (an integer or a string int() accepts) returns exactly the         *)
(* appended records whose issue_number is N, in the order appended.        *)
(***************************************************************************)
C2_IssueQueryExact ==
    (op = "get_activity_for_issue" /\ FreshLog /\ Coercible(args[1]))
        => (exc = "none" /\ out = ForIssue(appended, args[1]))

C2_Witness ==
    /\ op = "get_activity_for_issue" /\ FreshLog
    /\ args = <<IssueTwoText>>
    /\ Len(appended) = 2 /\ Len(out) = 1
    /\ DictGet(appended[1], K_issue_number) = PyInt(1)

(***************************************************************************)
(* C3: on a log built by log_activity calls alone, get_activity_for_agent  *)
(* of A returns exactly the appended records whose agent_id is A (the      *)
(* default "unknown" included), in the order appended.                     *)
(***************************************************************************)
C3_AgentQueryExact ==
    (op = "get_activity_for_agent" /\ FreshLog)
        => (exc = "none" /\ out = ForAgent(appended, args[1]))

C3_Witness ==
    /\ op = "get_activity_for_agent" /\ FreshLog
    /\ args = <<DefaultAgentId>>
    /\ Len(appended) = 2 /\ Len(out) = 1
    /\ DictGet(appended[1], K_agent_id) # DefaultAgentId

(***************************************************************************)
(* C4: get_recent_activity(limit), limit >= 0, returns at most limit       *)
(* records: the last min(limit, number of well-formed records) well-formed *)
(* records of the file, in file order.                                     *)
(***************************************************************************)
C4_RecentIsLastLimitRecords ==
    (op = "get_recent_activity" /\ args # <<>> /\ LimitOf(args) >= 0)
        => (/\ exc = "none"
            /\ Len(out) <= LimitOf(args)
            /\ out = LastN(RecordsIn(content), LimitOf(args)))

(***************************************************************************)
(* C5: whatever lines of the log are not well-formed records, each query   *)
(* completes without raising, returns no element that comes from such a    *)
(* line, and returns every well-formed record that matches.                *)
(***************************************************************************)
C5_MalformedLinesSkipped ==
    (op \in ReadOps /\ (op = "get_activity_for_issue" => Coercible(args[1])))
        => (/\ exc = "none"
            /\ \A k \in 1..Len(out) : WellFormed(out[k])
            /\ op = "get_activity_for_issue"
                   => out = ForIssue(RecordsIn(content), args[1])
            /\ op = "get_activity_for_agent"
                   => out = ForAgent(RecordsIn(content), args[1]))

(***************************************************************************)
(* C6: while the log file does not exist, each query returns the empty     *)
(* sequence for every argument, raises nothing and does not create the     *)
(* file.                                                                   *)
(***************************************************************************)
C6_AbsentFileReadsEmpty ==
    [][(op' \in ReadOps /\ ~fileExists)
           => (exc' = "none" /\ out' = <<>> /\ ~fileExists' /\ content' = content)]_vars

C6_Witness ==
    /\ op = "get_activity_for_issue" /\ args = <<IssueBadText>>
    /\ ~fileExists /\ out = <<>>

(***************************************************************************)
(* C7: a successful log_activity adds one line to the end of the log, the  *)
(* encoding of the record it returns; the record has exactly the fields    *)
(* timestamp, action, issue_number, agent_id, details, with issue_number   *)
(* the integer value of the argument, agent_id defaulting to "unknown"     *)
(* and details to the empty string.                                        *)
(***************************************************************************)
EncodedAs(e, line, before, after, a) ==
    /\ after = before \o line \o <<NL>>
    /\ ~HasNewline(line)
    /\ Loads(line \o <<NL>>) = [ok |-> TRUE, v |-> e]
    /\ [k \in 1..Len(e.d) |-> e.d[k].k] =
           <<K_timestamp, K_action, K_issue_number, K_agent_id, K_details>>
    /\ WellFormed(e)
    /\ DictGet(e, K_action) = a[1]
    /\ DictGet(e, K_issue_number) = PyInt(ParseInt(a[2]).n)
    /\ DictGet(e, K_agent_id) = ArgOr(a, 3, DefaultAgentId)
    /\ DictGet(e, K_details) = ArgOr(a, 4, DefaultDetails)

C7_AppendsOneEncodedRecord ==
    [][(op' \in LogOps /\ exc' = "none")
           => (/\ Len(out') = 1
               /\ \A e \in {out'[1]}, a \in {args'}, after \in {content'} :
                      EncodedAs(e, Dumps(e), content, after, a))]_vars

C7_Witness ==
    /\ op = "log_activity" /\ exc = "none"
    /\ args = <<TheAction, IssueTwoText>>
    /\ DictGet(out[1], K_issue_number) = PyInt(2)
    /\ DictGet(out[1], K_agent_id) = DefaultAgentId
    /\ DictGet(out[1], K_details) = PyStr(<<>>)

(***************************************************************************)
(* C8: the log is append-only: across every operation the file's earlier   *)
(* characters, and so its newline-terminated lines, are a prefix of its    *)
(* later ones, an existing file stays, and the queries leave it unchanged. *)
(***************************************************************************)
C8_AppendOnly ==
    [][\A after \in {content'} :
           /\ IsPrefix(content, after)
           /\ IsPrefix(CompleteLines(content), CompleteLines(after))
           /\ fileExists => fileExists'
           /\ op' \in ReadOps => (after = content /\ fileExists' = fileExists)]_vars

C8_Witness ==
    /\ op \in LogOps /\ exc = "none"
    /\ Len(CompleteLines(prior.text)) = 1
    /\ Len(CompleteLines(content)) = 2

(***************************************************************************)
(* C9: the script run with fewer than 2 positional arguments exits with    *)
(* status 1 without calling log_activity, the log unchanged; run with 2 to *)
(* 4 arguments and an issue number int() accepts it appends one record and *)
(* exits with status 0.                                                    *)
(***************************************************************************)
C9_MainUsageAndSuccess ==
    [][op' = "main"
           => \A a \in {args'}, after \in {content'}, log \in {appended'} :
                  /\ Len(a) < 2
                      => (/\ exitCode' = 1
                          /\ after = content /\ log = appended
                          /\ UNCHANGED <<fileExists, dirExists>>)
                  /\ (Len(a) \in 2..4 /\ Coercible(a[2]))
                      => (/\ exitCode' = 0
                          /\ Len(log) = Len(appended) + 1
                          /\ after = content \o Dumps(Last(log)) \o <<NL>>)]_vars

C9_Witness ==
    /\ op = "main" /\ Len(args) = 1 /\ exitCode = 1
    /\ fileExists /\ appended # <<>>

(***************************************************************************)
(* C10: a log_activity call, or a run of the script, whose issue_number    *)
(* int() rejects fails with an error (a non-zero exit status for the       *)
(* script) and appends nothing: the log keeps its characters and is not    *)
(* created if it was absent.                                               *)
(***************************************************************************)
C10_BadIssueAppendsNothing ==
    [][(op' \in LogOps /\ Len(args') >= 2 /\ ~Coercible(args'[2]))
           => (/\ exc' \in {"ValueError", "TypeError"}
               /\ op' = "main" => exitCode' = 1
               /\ content' = content
               /\ fileExists' = fileExists
               /\ appended' = appended)]_vars

C10_Witness ==
    /\ op = "main" /\ exc = "ValueError" /\ exitCode = 1
    /\ ~fileExists /\ dirExists

====
